---------------------------- MODULE Spec2Model ----------------------------
(***************************************************************************)
(* A model of serde-json-wasm's string unescaper (src/de/unescape.rs) and  *)
(* of its serializer (src/ser/mod.rs, src/ser/map.rs).                     *)
(*                                                                         *)
(* Bytes are the integers 0..255, a byte slice or Vec<u8> is a sequence of *)
(* bytes, a Rust String is the sequence of its chars (code points) and its *)
(* bytes are the concatenation of the chars' UTF-8 encodings.              *)
(***************************************************************************)
EXTENDS Integers, Sequences, FiniteSets, TLC

VARIABLES
    \* ---- unescape(source): de/unescape.rs
    source,        \* the input slice
    pos,           \* number of bytes the for loop has consumed
    out,           \* out: Vec<u8>
    open,          \* open: bool
    in_unicode,    \* in_unicode: bool
    unicode_tmp,   \* unicode_tmp: Vec<u8>
    result,        \* "idle" (not called), "scanning", "Ok", "InvalidEscape",
                   \* "InvalidUnicodeCodePoint"
    \* ---- Serializer: ser/mod.rs
    buf,           \* Serializer.buf: Vec<u8>
    str_v,         \* the &str handed to serialize_str, as its chars
    \* ---- serialize_unsigned! / serialize_signed!: ser/mod.rs
    int_ty,        \* the integer type of the call: "u8" .. "i64", or "none"
    int_in,        \* the macro's $v: the argument's bits, most significant byte first
    num_v,         \* the local v: the magnitude that is divided down
    num_signed,    \* the local signed
    num_buf,       \* the local buf: [u8; N]
    num_i,         \* the local i
    int_pc,        \* "idle", "loop", "emit", "done", "panic"
    \* ---- to_vec(value) of a value with containers: ser/mod.rs, ser/map.rs
    ser_pc,        \* "idle", "value" (Serializer::new is done), "open", "done"
    stack,         \* the container serializers that are open, outermost first
    root,          \* the shape of the value handed to to_vec
    fed,           \* the number of elements, fields, entries and variant
                   \* payloads begun so far
    visiting       \* the value whose serialize was called last: its wrappers
                   \* and shape, and the length of the buffer and the number
                   \* of open serializers at the call

ueVars == <<source, pos, out, open, in_unicode, unicode_tmp, result>>
strVars == <<buf, str_v>>
conVars == <<ser_pc, stack, root, fed, visiting>>
intVars == <<int_ty, int_in, num_v, num_signed, num_buf, num_i, int_pc>>
vars == <<source, pos, out, open, in_unicode, unicode_tmp, result, buf, str_v,
          int_ty, int_in, num_v, num_signed, num_buf, num_i, int_pc,
          ser_pc, stack, root, fed, visiting>>

(***************************************************************************)
(* Bounds of the model                                                     *)
(***************************************************************************)
\* an input of unescape is the concatenation of at most MaxFrags fragments
MaxFrags == 2
\* a string handed to serialize_str has at most MaxStrLen chars
MaxStrLen == 2
\* containers are nested at most MaxDepth deep
MaxDepth == 2
\* a value handed to to_vec has at most MaxElems elements, fields and entries
MaxElems == 4

(***************************************************************************)
(* Program constants                                                       *)
(***************************************************************************)
BACKSPACE == 8
FORMFEED == 12
LINEFEED == 10
CARRIAGE_RETURN == 13
HORIZONTAL_TAB == 9

\* the panic of hex_decode_4bit, as a value no digit has
Panic == -1

(***************************************************************************)
(* Sequences                                                               *)
(***************************************************************************)
RECURSIVE Concat(_)
Concat(ss) == IF ss = <<>> THEN <<>> ELSE Head(ss) \o Concat(Tail(ss))

Range(s) == {s[k] : k \in 1..Len(s)}

(***************************************************************************)
(* Bit operations on naturals, for hex_decode's shifts and ors             *)
(***************************************************************************)
RECURSIVE BitOr(_, _)
BitOr(a, b) ==
    IF a = 0 THEN b
    ELSE IF b = 0 THEN a
    ELSE (IF a % 2 = 1 \/ b % 2 = 1 THEN 1 ELSE 0) + 2 * BitOr(a \div 2, b \div 2)

RECURSIVE Shl(_, _)
Shl(a, n) == IF n = 0 THEN a ELSE Shl(2 * a, n - 1)

(***************************************************************************)
(* The standard library's char and UTF-8 functions the code calls          *)
(***************************************************************************)
\* a char::try_from that checks the range only
char_try_from_RangeOnly(codepoint) == codepoint >= 0 /\ codepoint <= 1114111

\* char::try_from(u32) is Ok exactly for the Unicode scalar values
char_try_from(codepoint) ==
    /\ codepoint >= 0
    /\ codepoint <= 1114111
    /\ ~(codepoint >= 55296 /\ codepoint <= 57343)

\* an encode_utf8 that writes the low byte of the char
encode_utf8_LowByte(c) == <<c % 256>>

\* char::encode_utf8
encode_utf8(c) ==
    IF c < 128 THEN <<c>>
    ELSE IF c < 2048 THEN <<192 + (c \div 64), 128 + (c % 64)>>
    ELSE IF c < 65536 THEN
        <<224 + (c \div 4096), 128 + ((c \div 64) % 64), 128 + (c % 64)>>
    ELSE <<240 + (c \div 262144), 128 + ((c \div 4096) % 64),
           128 + ((c \div 64) % 64), 128 + (c % 64)>>

IsCont(b) == b >= 128 /\ b <= 191

\* String::from_utf8 is Ok exactly for the well-formed UTF-8 byte sequences
RECURSIVE from_utf8_ok(_)
from_utf8_ok(bs) ==
    IF bs = <<>> THEN TRUE
    ELSE LET b0 == bs[1]
             n == Len(bs)
             rest(k) == SubSeq(bs, k + 1, n)
         IN  IF b0 < 128 THEN from_utf8_ok(rest(1))
             ELSE IF b0 >= 194 /\ b0 <= 223 THEN
                 n >= 2 /\ IsCont(bs[2]) /\ from_utf8_ok(rest(2))
             ELSE IF b0 >= 224 /\ b0 <= 239 THEN
                 /\ n >= 3
                 /\ IsCont(bs[2])
                 /\ (b0 = 224 => bs[2] >= 160)
                 /\ (b0 = 237 => bs[2] <= 159)
                 /\ IsCont(bs[3])
                 /\ from_utf8_ok(rest(3))
             ELSE IF b0 >= 240 /\ b0 <= 244 THEN
                 /\ n >= 4
                 /\ IsCont(bs[2])
                 /\ (b0 = 240 => bs[2] >= 144)
                 /\ (b0 = 244 => bs[2] <= 143)
                 /\ IsCont(bs[3])
                 /\ IsCont(bs[4])
                 /\ from_utf8_ok(rest(4))
             ELSE FALSE

\* str::as_bytes of a String given as its chars
RECURSIVE as_bytes(_)
as_bytes(s) == IF s = <<>> THEN <<>> ELSE encode_utf8(Head(s)) \o as_bytes(Tail(s))

(***************************************************************************)
(* de/unescape.rs                                                          *)
(***************************************************************************)
\* a match arm that lets every lower-case letter through
IsHexByte_AnyLowerCase(byte) ==
    \/ byte >= 48 /\ byte <= 57
    \/ byte >= 97 /\ byte <= 122
    \/ byte >= 65 /\ byte <= 70

\* the match arm b'0'..=b'9' | b'a'..=b'f' | b'A'..=b'F'
IsHexByte(byte) ==
    \/ byte >= 48 /\ byte <= 57
    \/ byte >= 97 /\ byte <= 102
    \/ byte >= 65 /\ byte <= 70

\* a hex_decode_4bit whose lower-case arm forgets the + 10
hex_decode_4bit_LowerCaseOff(x) ==
    IF x >= 48 /\ x <= 57 THEN x - 48
    ELSE IF x >= 65 /\ x <= 70 THEN x - 65 + 10
    ELSE IF x >= 97 /\ x <= 102 THEN x - 97
    ELSE Panic

hex_decode_4bit(x) ==
    IF x >= 48 /\ x <= 57 THEN x - 48
    ELSE IF x >= 65 /\ x <= 70 THEN x - 65 + 10
    ELSE IF x >= 97 /\ x <= 102 THEN x - 97 + 10
    ELSE Panic

hex_decode(a, b, c, d) ==
    IF Panic \in {hex_decode_4bit(a), hex_decode_4bit(b),
                  hex_decode_4bit(c), hex_decode_4bit(d)}
    THEN Panic
    ELSE BitOr(BitOr(BitOr(Shl(hex_decode_4bit(a), 12), Shl(hex_decode_4bit(b), 8)),
                     Shl(hex_decode_4bit(c), 4)),
               hex_decode_4bit(d))

\* The scan state of unescape as a record, so that the branches of the loop
\* body are operators from a state and a byte to the next state.
ScanState(o, op, iu, ut, r) ==
    [out |-> o, open |-> op, in_unicode |-> iu, unicode_tmp |-> ut, result |-> r]

\* a unicode arm that forgets unicode_tmp.clear()
UnicodeByte_NoClear(st, byte) ==
    IF IsHexByte(byte) THEN
        LET tmp == Append(st.unicode_tmp, byte) IN
        IF Len(tmp) = 4 THEN
            LET codepoint == hex_decode(tmp[1], tmp[2], tmp[3], tmp[4]) IN
            IF char_try_from(codepoint) THEN
                [st EXCEPT !.out = st.out \o encode_utf8(codepoint),
                           !.unicode_tmp = tmp,
                           !.in_unicode = FALSE,
                           !.open = FALSE]
            ELSE [st EXCEPT !.unicode_tmp = tmp, !.result = "InvalidEscape"]
        ELSE [st EXCEPT !.unicode_tmp = tmp]
    ELSE [st EXCEPT !.result = "InvalidEscape"]

\* if in_unicode { match byte { ... } }
UnicodeByte(st, byte) ==
    IF IsHexByte(byte) THEN
        LET tmp == Append(st.unicode_tmp, byte) IN
        IF Len(tmp) = 4 THEN
            LET codepoint == hex_decode(tmp[1], tmp[2], tmp[3], tmp[4]) IN
            IF codepoint = Panic THEN [st EXCEPT !.unicode_tmp = tmp, !.result = "panic"]
            ELSE IF char_try_from(codepoint) THEN
                [st EXCEPT !.out = st.out \o encode_utf8(codepoint),
                           !.unicode_tmp = <<>>,
                           !.in_unicode = FALSE,
                           !.open = FALSE]
            ELSE [st EXCEPT !.unicode_tmp = tmp, !.result = "InvalidEscape"]
        ELSE [st EXCEPT !.unicode_tmp = tmp]
    ELSE [st EXCEPT !.result = "InvalidEscape"]

\* an escape arm that copies an unknown escape character instead of failing
EscapedByte_Lenient(st, byte) ==
    IF byte = 98 THEN [st EXCEPT !.out = Append(st.out, BACKSPACE), !.open = FALSE]
    ELSE IF byte = 102 THEN [st EXCEPT !.out = Append(st.out, FORMFEED), !.open = FALSE]
    ELSE IF byte = 110 THEN [st EXCEPT !.out = Append(st.out, LINEFEED), !.open = FALSE]
    ELSE IF byte = 114 THEN
        [st EXCEPT !.out = Append(st.out, CARRIAGE_RETURN), !.open = FALSE]
    ELSE IF byte = 116 THEN
        [st EXCEPT !.out = Append(st.out, HORIZONTAL_TAB), !.open = FALSE]
    ELSE IF byte = 117 THEN [st EXCEPT !.in_unicode = TRUE]
    ELSE [st EXCEPT !.out = Append(st.out, byte), !.open = FALSE]

\* an escape arm with the bytes of \n and \r exchanged
EscapedByte_SwappedControl(st, byte) ==
    IF byte \in {34, 47, 92} THEN [st EXCEPT !.out = Append(st.out, byte), !.open = FALSE]
    ELSE IF byte = 98 THEN [st EXCEPT !.out = Append(st.out, BACKSPACE), !.open = FALSE]
    ELSE IF byte = 102 THEN [st EXCEPT !.out = Append(st.out, FORMFEED), !.open = FALSE]
    ELSE IF byte = 110 THEN
        [st EXCEPT !.out = Append(st.out, CARRIAGE_RETURN), !.open = FALSE]
    ELSE IF byte = 114 THEN [st EXCEPT !.out = Append(st.out, LINEFEED), !.open = FALSE]
    ELSE IF byte = 116 THEN
        [st EXCEPT !.out = Append(st.out, HORIZONTAL_TAB), !.open = FALSE]
    ELSE IF byte = 117 THEN [st EXCEPT !.in_unicode = TRUE]
    ELSE [st EXCEPT !.result = "InvalidEscape"]

\* else if open { match byte { ... } }
EscapedByte(st, byte) ==
    IF byte \in {34, 47, 92} THEN [st EXCEPT !.out = Append(st.out, byte), !.open = FALSE]
    ELSE IF byte = 98 THEN [st EXCEPT !.out = Append(st.out, BACKSPACE), !.open = FALSE]
    ELSE IF byte = 102 THEN [st EXCEPT !.out = Append(st.out, FORMFEED), !.open = FALSE]
    ELSE IF byte = 110 THEN [st EXCEPT !.out = Append(st.out, LINEFEED), !.open = FALSE]
    ELSE IF byte = 114 THEN
        [st EXCEPT !.out = Append(st.out, CARRIAGE_RETURN), !.open = FALSE]
    ELSE IF byte = 116 THEN
        [st EXCEPT !.out = Append(st.out, HORIZONTAL_TAB), !.open = FALSE]
    ELSE IF byte = 117 THEN [st EXCEPT !.in_unicode = TRUE]
    ELSE [st EXCEPT !.result = "InvalidEscape"]

\* else { if *byte == b'\\' { open = true } else { out.push(*byte) } }
NormalByte(st, byte) ==
    IF byte = 92 THEN [st EXCEPT !.open = TRUE]
    ELSE [st EXCEPT !.out = Append(st.out, byte)]

\* the body of `for byte in source`
LoopBody(st, byte) ==
    IF st.in_unicode THEN UnicodeByte(st, byte)
    ELSE IF st.open THEN EscapedByte(st, byte)
    ELSE NormalByte(st, byte)

\* String::from_utf8(out).map_err(|_| Error::InvalidUnicodeCodePoint)
AfterLoop(st) ==
    IF from_utf8_ok(st.out) THEN "Ok" ELSE "InvalidUnicodeCodePoint"

(***************************************************************************)
(* ser/mod.rs: strings                                                     *)
(***************************************************************************)
\* a hex_4bit that writes lower-case digits
hex_4bit_LowerCase(c) == IF c <= 9 THEN 48 + c ELSE 97 + (c - 10)

\* Upper-case hex for value in 0..16
hex_4bit(c) == IF c <= 9 THEN 48 + c ELSE 65 + (c - 10)

\* (hex_4bit(c >> 4), hex_4bit(c & 0x0F))
hex(c) == <<hex_4bit(c \div 16), hex_4bit(c % 16)>>

\* the arms of `match c` in serialize_str, in their order: what one char
\* appends to the buffer
EscapeChar(c) ==
    IF c = 92 THEN <<92, 92>>
    ELSE IF c = 34 THEN <<92, 34>>
    ELSE IF c = 8 THEN <<92, 98>>
    ELSE IF c = 9 THEN <<92, 116>>
    ELSE IF c = 10 THEN <<92, 110>>
    ELSE IF c = 12 THEN <<92, 102>>
    ELSE IF c = 13 THEN <<92, 114>>
    ELSE IF c >= 0 /\ c <= 31 THEN <<92, 117, 48, 48>> \o hex(c % 256)
    ELSE encode_utf8(c)

\* for c in v.chars() { ... }
RECURSIVE EscapeChars(_, _)
EscapeChars(b, v) ==
    IF v = <<>> THEN b ELSE EscapeChars(b \o EscapeChar(Head(v)), Tail(v))

\* serialize_str: the buffer after the call
serialize_str(b, v) == Append(EscapeChars(Append(b, 34), v), 34)

(***************************************************************************)
(* ser/mod.rs: integers.  A machine integer of w bits is the sequence of   *)
(* its w/8 bytes, most significant first (64-bit values do not fit the     *)
(* model checker's integers); a signed one is in two's complement.         *)
(***************************************************************************)
UnsignedTypes == {"u8", "u16", "u32", "u64"}
SignedTypes == {"i8", "i16", "i32", "i64"}
IntTypes == UnsignedTypes \cup SignedTypes

\* the bytes of the type
SizeOf(ty) ==
    CASE ty \in {"u8", "i8"} -> 1
      [] ty \in {"u16", "i16"} -> 2
      [] ty \in {"u32", "i32"} -> 4
      [] ty \in {"u64", "i64"} -> 8

\* buffers with no room for the sign of the signed types
BufLen_NoSignSlot(ty) ==
    CASE ty = "i8" -> 3
      [] ty = "i16" -> 5
      [] ty = "i32" -> 10
      [] ty = "i64" -> 19
      [] ty = "u8" -> 3
      [] ty = "u16" -> 5
      [] ty = "u32" -> 10
      [] ty = "u64" -> 20

\* the macro's $N in serialize_i8 .. serialize_u64
BufLen(ty) ==
    CASE ty = "i8" -> 4
      [] ty = "i16" -> 6
      [] ty = "i32" -> 11
      [] ty = "i64" -> 20
      [] ty = "u8" -> 3
      [] ty = "u16" -> 5
      [] ty = "u32" -> 10
      [] ty = "u64" -> 20

IsZero(x) == \A k \in 1..Len(x) : x[k] = 0

\* v / 10 and v % 10 by long division: <<quotient, remainder>>
RECURSIVE DivRem10(_, _)
DivRem10(x, r) ==
    IF x = <<>> THEN <<<<>>, r>>
    ELSE LET cur == r * 256 + Head(x)
             rest == DivRem10(Tail(x), cur % 10)
         IN  <<<<cur \div 10>> \o rest[1], rest[2]>>
Div10(x) == DivRem10(x, 0)[1]
Mod10(x) == DivRem10(x, 0)[2]

\* x + 1, wrapping
RECURSIVE WrappingInc(_)
WrappingInc(x) ==
    IF x = <<>> THEN <<>>
    ELSE IF x[Len(x)] < 255 THEN [x EXCEPT ![Len(x)] = x[Len(x)] + 1]
    ELSE Append(WrappingInc(SubSeq(x, 1, Len(x) - 1)), 0)

BitNot(x) == [k \in 1..Len(x) |-> 255 - x[k]]

\* $ixx::min_value() and $ixx::max_value()
min_value(n) == [k \in 1..n |-> IF k = 1 THEN 128 ELSE 0]
max_value(n) == [k \in 1..n |-> IF k = 1 THEN 127 ELSE 255]

\* v < 0 of a signed value
IsNegative(x) == x[1] >= 128

\* an arithmetic overflow, as a value that is no integer's bytes
Overflow == <<-1>>

\* -v of a signed value: an overflow for min_value (a panic where overflow
\* checks are on), else the two's complement
Neg(x) == IF x = min_value(Len(x)) THEN Overflow ELSE WrappingInc(BitNot(x))

\* a signed magnitude whose min_value arm forgets the + 1
SignedMagnitude_MinOffByOne(x) ==
    IF x = min_value(Len(x)) THEN <<TRUE, max_value(Len(x))>>
    ELSE IF IsNegative(x) THEN <<TRUE, Neg(x)>>
    ELSE <<FALSE, x>>

\* let (signed, mut v) = if v == min_value() { .. } else if v < 0 { .. } else { .. }
SignedMagnitude(x) ==
    IF x = min_value(Len(x)) THEN <<TRUE, WrappingInc(max_value(Len(x)))>>
    ELSE IF IsNegative(x) THEN <<TRUE, Neg(x)>>
    ELSE <<FALSE, x>>

\* buf[i] = byte, for i in 0..N-1
SetAt(b, i, byte) == [b EXCEPT ![i + 1] = byte]

\* &buf[i..]
SliceFrom(b, i) == SubSeq(b, i + 1, Len(b))

(***************************************************************************)
(* ser/mod.rs, ser/map.rs: scalars and containers.  Each operator gives    *)
(* the buffer after the call; a container serializer (SerializeSeq,        *)
(* SerializeStruct, SerializeMap) is a record with its field first, its    *)
(* kind, and the position of the code that drives it: n, the elements      *)
(* begun, and key_pending, a map's key written and its value still to come.*)
(* A serialize_newtype_variant that waits for its payload to return is a   *)
(* record of the kind "newtype".                                           *)
(* ser/seq.rs and ser/struct_.rs are not among the sources at hand: the    *)
(* sequence and record serializers follow the specification (4.5).         *)
(***************************************************************************)
serialize_bool(b, x) ==
    IF x THEN b \o <<116, 114, 117, 101>> ELSE b \o <<102, 97, 108, 115, 101>>

\* an absent optional that writes nothing
serialize_none_Omitted(b) == b

serialize_none(b) == b \o <<110, 117, 108, 108>>

\* serialize_some: value.serialize(self), r being what that call gives
serialize_some(r) == r

serialize_unit_variant(b, variant) == serialize_str(b, variant)

\* serialize_newtype_variant up to value.serialize: {, the variant, :
serialize_newtype_variant_open(b, variant) ==
    Append(serialize_str(Append(b, 123), variant), 58)

\* a newtype variant that forgets its closing brace
serialize_newtype_variant_close_Missing(b) == b

\* serialize_newtype_variant once value.serialize has returned Ok
serialize_newtype_variant_close(b) == Append(b, 125)

\* the buffer of a call that ran into unreachable!(): the call panics
Unreachable == <<-1>>

serialize_f32(b) == Unreachable
\* an f64 that is written as null
serialize_f64_AsNull(b) == b \o <<110, 117, 108, 108>>
serialize_f64(b) == Unreachable
serialize_char(b) == Unreachable
serialize_bytes(b) == Unreachable
serialize_unit(b) == Unreachable
serialize_unit_struct(b) == Unreachable
serialize_tuple_struct(b) == Unreachable
serialize_tuple_variant(b) == Unreachable
serialize_map(b) == Unreachable

\* self.buf.push(b'['), before SerializeSeq::new
serialize_seq(b) == Append(b, 91)

\* self.buf.push(b'{'), before SerializeStruct::new
serialize_struct(b) == Append(b, 123)

\* a serialize_struct_variant that forgets the variant object's brace
serialize_struct_variant_NoBrace(b, variant) ==
    serialize_struct(Append(serialize_str(b, variant), 58))

serialize_struct_variant(b, variant) ==
    serialize_struct(Append(serialize_str(Append(b, 123), variant), 58))

Container(kind) == [kind |-> kind, first |-> TRUE, n |-> 0, key_pending |-> FALSE]

\* SerializeSeq::new, SerializeStruct::new (the latter also behind
\* SerializeStructVariant), SerializeMap::new
SerializeSeq_new == Container("seq")
SerializeStruct_new(kind) == Container(kind)
SerializeMap_new == Container("map")

\* the opening brace of a map: the code that constructs a SerializeMap
MapOpening(b) == Append(b, 123)

\* SerializeSeq::serialize_element, up to value.serialize: <<buffer, self>>
SerializeSeq_serialize_element(b, self) ==
    <<IF ~self.first THEN Append(b, 44) ELSE b,
      [self EXCEPT !.first = FALSE, !.n = @ + 1]>>

\* SerializeSeq::end
SerializeSeq_end(b) == Append(b, 93)

\* SerializeStruct::serialize_field, up to value.serialize: <<buffer, self>>
SerializeStruct_serialize_field(b, self, key) ==
    <<Append(serialize_str(IF ~self.first THEN Append(b, 44) ELSE b, key), 58),
      [self EXCEPT !.first = FALSE, !.n = @ + 1]>>

\* SerializeStruct::end
SerializeStruct_end(b) == Append(b, 125)

\* SerializeStructVariant::end: the record's brace and the variant object's
SerializeStructVariant_end(b) == Append(Append(b, 125), 125)

\* MapKeySerializer: a key is written as a string
MapKeySerializer_serialize_str(b, key) == serialize_str(b, key)

\* a serialize_key that forgets self.first = false
SerializeMap_serialize_key_KeepsFirst(b, self, key) ==
    <<Append(MapKeySerializer_serialize_str(IF ~self.first THEN Append(b, 44) ELSE b, key),
             58),
      [self EXCEPT !.n = @ + 1, !.key_pending = TRUE]>>

\* SerializeMap::serialize_key: <<buffer, self>>
SerializeMap_serialize_key(b, self, key) ==
    <<Append(MapKeySerializer_serialize_str(IF ~self.first THEN Append(b, 44) ELSE b, key),
             58),
      [self EXCEPT !.first = FALSE, !.n = @ + 1, !.key_pending = TRUE]>>

\* SerializeMap::end
SerializeMap_end(b) == Append(b, 125)

(***************************************************************************)
(* The inputs of unescape: concatenations of at most MaxFrags fragments    *)
(***************************************************************************)
\* bytes read in the Normal state: space, '/', 'e', 'x', an invalid byte,
\* and the two bytes of U+00E4
NormalFrags == {<<32>>, <<47>>, <<101>>, <<120>>, <<255>>, <<195, 164>>}

\* a backslash alone, the eight short escapes, and malformed escapes
ShortFrags ==
    {<<92>>} \cup {<<92, c>> : c \in {34, 92, 47, 98, 102, 110, 114, 116, 120, 39}}

\* the hex digits of \u escapes: 0000 001F 001f 00e4 ABCD abcd AbCd D7FF D83D
\* DC4F DEAD d800 E000 FFFF
HexQuads ==
    {<<48, 48, 48, 48>>, <<48, 48, 49, 70>>, <<48, 48, 49, 102>>, <<48, 48, 101, 52>>,
     <<65, 66, 67, 68>>, <<97, 98, 99, 100>>, <<65, 98, 67, 100>>,
     <<68, 55, 70, 70>>, <<68, 56, 51, 68>>, <<68, 67, 52, 70>>, <<68, 69, 65, 68>>,
     <<100, 56, 48, 48>>, <<69, 48, 48, 48>>, <<70, 70, 70, 70>>}

\* \u followed by 0..4 hex digits
UnicodeFrags ==
    {<<92, 117>> \o SubSeq(q, 1, k) : q \in HexQuads, k \in {0, 2, 3, 4}}

Frags == NormalFrags \cup ShortFrags \cup UnicodeFrags

RECURSIVE FragSeqs(_)
FragSeqs(n) ==
    IF n = 0 THEN {<<>>}
    ELSE FragSeqs(n - 1) \cup {s \o f : s \in FragSeqs(n - 1), f \in Frags}

Inputs == FragSeqs(MaxFrags)

(***************************************************************************)
(* unescape, one action per step of its loop                               *)
(***************************************************************************)
IdleUnescape ==
    /\ source = <<>>
    /\ pos = 0
    /\ out = <<>>
    /\ open = FALSE
    /\ in_unicode = FALSE
    /\ unicode_tmp = <<>>
    /\ result = "idle"

IdleSerializer ==
    /\ buf = <<>>
    /\ str_v = <<>>

\* no value has been handed to a serialize yet
NotVisiting == [wraps |-> <<>>, shape |-> "none", at |-> 0, depth |-> 0]

\* no value with containers is being serialized
IdleContainers ==
    /\ ser_pc = "idle"
    /\ stack = <<>>
    /\ root = "none"
    /\ fed = 0
    /\ visiting = NotVisiting

\* no integer is being serialized
IdleInt ==
    /\ int_ty = "none"
    /\ int_in = <<>>
    /\ num_v = <<>>
    /\ num_signed = FALSE
    /\ num_buf = <<>>
    /\ num_i = 0
    /\ int_pc = "idle"

\* the state at the head of the loop
EnterUnescape(src) ==
    /\ source' = src
    /\ pos' = 0
    /\ out' = <<>>
    /\ open' = FALSE
    /\ in_unicode' = FALSE
    /\ unicode_tmp' = <<>>
    /\ result' = "scanning"

\* one iteration of `for byte in source`
ReadByte ==
    /\ result = "scanning"
    /\ pos < Len(source)
    /\ LET st == LoopBody(ScanState(out, open, in_unicode, unicode_tmp, result),
                          source[pos + 1])
       IN  /\ out' = st.out
           /\ open' = st.open
           /\ in_unicode' = st.in_unicode
           /\ unicode_tmp' = st.unicode_tmp
           /\ result' = st.result
    /\ pos' = pos + 1
    /\ UNCHANGED <<source, strVars, intVars, conVars>>

\* the loop is over: the function's last line
EndOfInput ==
    /\ result = "scanning"
    /\ pos = Len(source)
    /\ result' = AfterLoop(ScanState(out, open, in_unicode, unicode_tmp, result))
    /\ UNCHANGED <<source, pos, out, open, in_unicode, unicode_tmp, strVars, intVars, conVars>>

InitUnescape ==
    /\ source \in Inputs
    /\ pos = 0
    /\ out = <<>>
    /\ open = FALSE
    /\ in_unicode = FALSE
    /\ unicode_tmp = <<>>
    /\ result = "scanning"
    /\ IdleSerializer
    /\ IdleInt
    /\ IdleContainers

NextUnescape == ReadByte \/ EndOfInput

SpecUnescape == InitUnescape /\ [][NextUnescape]_vars


(***************************************************************************)
(* serialize_str, and unescape applied to what it wrote                    *)
(***************************************************************************)
\* the chars of the strings: controls with a short escape (8 9 10 12 13) and
\* without (0 14 31), space, '"', '/', '\', 'u', DEL, and chars of two, three
\* and four bytes (E4, D7FF, E000, 211D, 1F4A3)
Chars == {0, 8, 9, 10, 12, 13, 14, 31, 32, 34, 47, 92, 117, 127,
          228, 8477, 55295, 57344, 128163}

RECURSIVE StringsOfLen(_)
StringsOfLen(n) ==
    IF n = 0 THEN {<<>>}
    ELSE {Append(s, c) : s \in StringsOfLen(n - 1), c \in Chars}

Strings == UNION {StringsOfLen(n) : n \in 0..MaxStrLen}

\* serialize_str(v) on a new Serializer
SerializeStr ==
    /\ buf = <<>>
    /\ result = "idle"
    /\ buf' = serialize_str(buf, str_v)
    /\ UNCHANGED <<str_v, ueVars, intVars, conVars>>

\* the caller of unescape hands it the bytes between the two quotes
UnescapeBody ==
    /\ buf # <<>>
    /\ result = "idle"
    /\ EnterUnescape(SubSeq(buf, 2, Len(buf) - 1))
    /\ UNCHANGED <<strVars, intVars, conVars>>

InitRoundTrip ==
    /\ IdleUnescape
    /\ buf = <<>>
    /\ str_v \in Strings
    /\ IdleInt
    /\ IdleContainers

NextRoundTrip == SerializeStr \/ UnescapeBody \/ ReadByte \/ EndOfInput

SpecRoundTrip == InitRoundTrip /\ [][NextRoundTrip]_vars

(***************************************************************************)
(* serialize_i8 .. serialize_u64, one action per step of the macros        *)
(***************************************************************************)
\* the arguments: every 8-bit value, and for the wider types the values
\* whose first byte, middle bytes and last byte are drawn from the ends of
\* the ranges and the powers of ten
TopBytes == {0, 1, 3, 127, 128, 255}
MidBytes == {0, 255}
LastBytes == {0, 1, 9, 10, 99, 100, 232, 254, 255}
ValuesOf(ty) ==
    IF SizeOf(ty) = 1 THEN {<<b>> : b \in 0..255}
    ELSE {[k \in 1..SizeOf(ty) |-> IF k = 1 THEN t ELSE IF k = SizeOf(ty) THEN l ELSE m] :
            t \in TopBytes, m \in MidBytes, l \in LastBytes}

\* serialize_uN(v) / serialize_iN(v) on a new Serializer: the macro up to
\* its loop
EnterInt(ty, x) ==
    /\ int_pc = "idle"
    /\ int_ty' = ty
    /\ int_in' = x
    /\ IF ty \in SignedTypes
       THEN LET sm == SignedMagnitude(x) IN
            IF sm[2] = Overflow
            THEN /\ int_pc' = "panic"
                 /\ UNCHANGED <<num_v, num_signed, num_buf, num_i>>
            ELSE /\ num_signed' = sm[1]
                 /\ num_v' = sm[2]
                 /\ num_buf' = [k \in 1..BufLen(ty) |-> 0]
                 /\ num_i' = BufLen(ty) - 1
                 /\ int_pc' = "loop"
       ELSE /\ num_signed' = FALSE
            /\ num_v' = x
            /\ num_buf' = [k \in 1..BufLen(ty) |-> 0]
            /\ num_i' = BufLen(ty) - 1
            /\ int_pc' = "loop"
    /\ UNCHANGED <<ueVars, strVars, conVars>>

SerializeInt == \E ty \in IntTypes : \E x \in ValuesOf(ty) : EnterInt(ty, x)

\* one iteration of serialize_unsigned!'s loop
UnsignedLoop ==
    /\ int_pc = "loop"
    /\ int_ty \in UnsignedTypes
    /\ IF num_i >= Len(num_buf)
       THEN int_pc' = "panic" /\ UNCHANGED <<num_v, num_buf, num_i>>
       ELSE /\ num_buf' = SetAt(num_buf, num_i, Mod10(num_v) + 48)
            /\ num_v' = Div10(num_v)
            /\ IF IsZero(Div10(num_v))
               THEN int_pc' = "emit" /\ num_i' = num_i
               ELSE IF num_i = 0
                    THEN int_pc' = "panic" /\ num_i' = num_i
                    ELSE int_pc' = "loop" /\ num_i' = num_i - 1
    /\ UNCHANGED <<int_ty, int_in, num_signed, ueVars, strVars, conVars>>

\* one iteration of serialize_signed!'s loop
SignedLoop ==
    /\ int_pc = "loop"
    /\ int_ty \in SignedTypes
    /\ IF num_i >= Len(num_buf)
       THEN int_pc' = "panic" /\ UNCHANGED <<num_v, num_buf, num_i>>
       ELSE /\ num_buf' = SetAt(num_buf, num_i, Mod10(num_v) + 48)
            /\ num_v' = Div10(num_v)
            /\ IF num_i = 0
               THEN int_pc' = "panic" /\ num_i' = num_i
               ELSE /\ num_i' = num_i - 1
                    /\ int_pc' = IF IsZero(Div10(num_v)) THEN "emit" ELSE "loop"
    /\ UNCHANGED <<int_ty, int_in, num_signed, ueVars, strVars, conVars>>

\* serialize_unsigned! after its loop: $self.buf.extend_from_slice(&buf[i..])
UnsignedEmit ==
    /\ int_pc = "emit"
    /\ int_ty \in UnsignedTypes
    /\ buf' = buf \o SliceFrom(num_buf, num_i)
    /\ int_pc' = "done"
    /\ UNCHANGED <<int_ty, int_in, num_v, num_signed, num_buf, num_i, str_v, ueVars, conVars>>

\* serialize_signed! after its loop: the sign, then extend_from_slice
SignedEmit ==
    /\ int_pc = "emit"
    /\ int_ty \in SignedTypes
    /\ IF num_signed
       THEN IF num_i >= Len(num_buf)
            THEN int_pc' = "panic" /\ UNCHANGED <<num_buf, num_i, buf>>
            ELSE /\ num_buf' = SetAt(num_buf, num_i, 45)
                 /\ num_i' = num_i
                 /\ buf' = buf \o SliceFrom(SetAt(num_buf, num_i, 45), num_i)
                 /\ int_pc' = "done"
       ELSE /\ num_i' = num_i + 1
            /\ num_buf' = num_buf
            /\ buf' = buf \o SliceFrom(num_buf, num_i + 1)
            /\ int_pc' = "done"
    /\ UNCHANGED <<int_ty, int_in, num_v, num_signed, str_v, ueVars, conVars>>

InitInt ==
    /\ IdleUnescape
    /\ IdleSerializer
    /\ IdleInt
    /\ IdleContainers

NextInt == SerializeInt \/ UnsignedLoop \/ SignedLoop \/ UnsignedEmit \/ SignedEmit

SpecInt == InitInt /\ [][NextInt]_vars

(***************************************************************************)
(* to_vec(value) of a value with containers: one action per call of a      *)
(* container serializer.  The value is given by the calls that its         *)
(* Serialize implementation makes, chosen as the serialization goes.       *)
(* A value is a shape under wrappers, outermost first: "some" for a        *)
(* present optional, "newtype_variant" for a variant with one payload.     *)
(* The shape "map" is a map whose SerializeMap is made by the opener of    *)
(* the map-key path, which is not among the sources at hand; the shape     *)
(* "serialize_map" is a map handed to Serializer::serialize_map.           *)
(***************************************************************************)
Scalars == {"true", "null", "str"}
ContainerKinds == {"seq", "struct", "variant", "map"}
Shapes == Scalars \cup ContainerKinds
Unsupported == {"f32", "f64", "char", "bytes", "unit", "unit_struct",
                "tuple_struct", "tuple_variant", "serialize_map"}
EncodeShapes == {"null", "str", "unit_variant", "seq", "struct"} \cup Unsupported
Wraps == {<<>>, <<"some">>, <<"newtype_variant">>, <<"newtype_variant", "some">>,
          <<"newtype_variant", "newtype_variant">>}

\* the name of the struct variant, V, of the newtype variant, N, of the unit
\* variant, U, and of the n-th field or key: a, b, ..
VariantName == <<86>>
NewtypeName == <<78>>
UnitName == <<85>>
KeyOf(n) == <<96 + n>>

Top == stack[Len(stack)]
WithTop(st, self) == [st EXCEPT ![Len(st)] = self]
Pop(st) == SubSeq(st, 1, Len(st) - 1)

\* value.serialize(&mut *ser) of a value without wrappers, up to the return
\* of the first call it makes: <<buffer, stack>>
SerializeValue(b, st, shape) ==
    CASE shape = "true" -> <<serialize_bool(b, TRUE), st>>
      [] shape = "null" -> <<serialize_none(b), st>>
      [] shape = "str" -> <<serialize_str(b, <<97>>), st>>
      [] shape = "unit_variant" -> <<serialize_unit_variant(b, UnitName), st>>
      [] shape = "seq" -> <<serialize_seq(b), Append(st, SerializeSeq_new)>>
      [] shape = "struct" -> <<serialize_struct(b), Append(st, SerializeStruct_new("struct"))>>
      [] shape = "variant" ->
            <<serialize_struct_variant(b, VariantName),
              Append(st, SerializeStruct_new("variant"))>>
      [] shape = "map" -> <<MapOpening(b), Append(st, SerializeMap_new)>>
      [] shape = "f32" -> <<serialize_f32(b), st>>
      [] shape = "f64" -> <<serialize_f64(b), st>>
      [] shape = "char" -> <<serialize_char(b), st>>
      [] shape = "bytes" -> <<serialize_bytes(b), st>>
      [] shape = "unit" -> <<serialize_unit(b), st>>
      [] shape = "unit_struct" -> <<serialize_unit_struct(b), st>>
      [] shape = "tuple_struct" -> <<serialize_tuple_struct(b), st>>
      [] shape = "tuple_variant" -> <<serialize_tuple_variant(b), st>>
      [] shape = "serialize_map" -> <<serialize_map(b), st>>

\* value.serialize(&mut *ser) of a value under its wrappers, up to the
\* return of the first call it makes: <<buffer, stack>>.  A newtype variant
\* whose payload is complete pushes its closing brace; one whose payload is
\* a container that stays open waits below it on the stack.
RECURSIVE Visit(_, _, _, _)
Visit(b, st, wraps, shape) ==
    IF wraps = <<>> THEN SerializeValue(b, st, shape)
    ELSE IF Head(wraps) = "some" THEN serialize_some(Visit(b, st, Tail(wraps), shape))
    ELSE LET r == Visit(serialize_newtype_variant_open(b, NewtypeName),
                        Append(st, Container("newtype")), Tail(wraps), shape)
         IN  IF r[1] = Unreachable THEN r
             ELSE IF Len(r[2]) = Len(st) + 1
                  THEN <<serialize_newtype_variant_close(r[1]), st>>
                  ELSE r

\* the return of a container's end() into the newtype variants that wait
\* for it: <<buffer, stack>>
RECURSIVE Unwind(_, _)
Unwind(b, st) ==
    IF st # <<>> /\ st[Len(st)].kind = "newtype"
    THEN Unwind(serialize_newtype_variant_close(b), Pop(st))
    ELSE <<b, st>>

\* the payloads of newtype variants among the wrappers
RECURSIVE Cost(_)
Cost(wraps) ==
    IF wraps = <<>> THEN 0
    ELSE (IF Head(wraps) = "newtype_variant" THEN 1 ELSE 0) + Cost(Tail(wraps))

MayBegin(wraps, shape) ==
    /\ fed + Cost(wraps) < MaxElems
    /\ shape \in ContainerKinds => Len(stack) + Cost(wraps) < MaxDepth

\* value.serialize(&mut *ser), called with the buffer b and the open
\* serializers st.  A panic ends the call of to_vec: the Serializer and the
\* container serializers are dropped, no buffer is handed back.
Serialize(b, st, wraps, shape) ==
    LET r == Visit(b, st, wraps, shape) IN
    /\ visiting' = [wraps |-> wraps, shape |-> shape, at |-> Len(b), depth |-> Len(st)]
    /\ IF r[1] = Unreachable
       THEN ser_pc' = "panic" /\ buf' = <<>> /\ stack' = <<>>
       ELSE /\ buf' = r[1]
            /\ stack' = r[2]
            /\ ser_pc' = IF r[2] = <<>> THEN "done" ELSE "open"

\* to_vec: value.serialize(&mut ser) on the new Serializer
ToVec(wraps, shape) ==
    /\ ser_pc = "value"
    /\ shape \in ContainerKinds => Cost(wraps) < MaxDepth
    /\ Serialize(buf, stack, wraps, shape)
    /\ root' = shape
    /\ fed' = Cost(wraps)
    /\ UNCHANGED <<str_v, ueVars, intVars>>

\* SerializeSeq::serialize_element(value)
SeqElement(wraps, shape) ==
    /\ ser_pc = "open"
    /\ Top.kind = "seq"
    /\ MayBegin(wraps, shape)
    /\ LET e == SerializeSeq_serialize_element(buf, Top)
       IN  Serialize(e[1], WithTop(stack, e[2]), wraps, shape)
    /\ fed' = fed + 1 + Cost(wraps)
    /\ UNCHANGED <<root, str_v, ueVars, intVars>>

\* SerializeStruct::serialize_field(key, value), of a struct or a struct variant
StructField(wraps, shape) ==
    /\ ser_pc = "open"
    /\ Top.kind \in {"struct", "variant"}
    /\ MayBegin(wraps, shape)
    /\ LET e == SerializeStruct_serialize_field(buf, Top, KeyOf(Top.n + 1))
       IN  Serialize(e[1], WithTop(stack, e[2]), wraps, shape)
    /\ fed' = fed + 1 + Cost(wraps)
    /\ UNCHANGED <<root, str_v, ueVars, intVars>>

\* SerializeMap::serialize_key(key)
MapKey ==
    /\ ser_pc = "open"
    /\ Top.kind = "map"
    /\ ~Top.key_pending
    /\ fed < MaxElems
    /\ LET e == SerializeMap_serialize_key(buf, Top, KeyOf(Top.n + 1)) IN
       buf' = e[1] /\ stack' = WithTop(stack, e[2])
    /\ fed' = fed + 1
    /\ UNCHANGED <<ser_pc, root, visiting, str_v, ueVars, intVars>>

\* SerializeMap::serialize_value(value)
MapValue(wraps, shape) ==
    /\ ser_pc = "open"
    /\ Top.kind = "map"
    /\ Top.key_pending
    /\ fed + Cost(wraps) <= MaxElems
    /\ shape \in ContainerKinds => Len(stack) + Cost(wraps) < MaxDepth
    /\ Serialize(buf, WithTop(stack, [Top EXCEPT !.key_pending = FALSE]), wraps, shape)
    /\ fed' = fed + Cost(wraps)
    /\ UNCHANGED <<root, str_v, ueVars, intVars>>

\* end() of the innermost open container, b being the buffer it leaves
Closed(b) ==
    /\ LET r == Unwind(b, Pop(stack)) IN
       /\ buf' = r[1]
       /\ stack' = r[2]
       /\ ser_pc' = IF r[2] = <<>> THEN "done" ELSE "open"
    /\ UNCHANGED <<root, fed, visiting, str_v, ueVars, intVars>>

SeqEnd == ser_pc = "open" /\ Top.kind = "seq" /\ Closed(SerializeSeq_end(buf))

StructEnd == ser_pc = "open" /\ Top.kind = "struct" /\ Closed(SerializeStruct_end(buf))

StructVariantEnd ==
    ser_pc = "open" /\ Top.kind = "variant" /\ Closed(SerializeStructVariant_end(buf))

MapEnd ==
    /\ ser_pc = "open"
    /\ Top.kind = "map"
    /\ ~Top.key_pending
    /\ Closed(SerializeMap_end(buf))

InitContainers ==
    /\ IdleUnescape
    /\ IdleSerializer
    /\ IdleInt
    /\ ser_pc = "value"
    /\ stack = <<>>
    /\ root = "none"
    /\ fed = 0
    /\ visiting = NotVisiting

\* values of sequences, records, struct variants and maps
NextContainers ==
    \/ \E shape \in Shapes : ToVec(<<>>, shape)
    \/ \E shape \in Shapes : SeqElement(<<>>, shape)
    \/ \E shape \in Shapes : StructField(<<>>, shape)
    \/ MapKey
    \/ \E shape \in Shapes : MapValue(<<>>, shape)
    \/ SeqEnd
    \/ StructEnd
    \/ StructVariantEnd
    \/ MapEnd

SpecContainers == InitContainers /\ [][NextContainers]_vars

\* values with optionals, variants and unsupported shapes, in sequences and
\* records
NextEncode ==
    \/ \E wraps \in Wraps, shape \in EncodeShapes : ToVec(wraps, shape)
    \/ \E wraps \in Wraps, shape \in EncodeShapes : SeqElement(wraps, shape)
    \/ \E wraps \in Wraps, shape \in EncodeShapes : StructField(wraps, shape)
    \/ SeqEnd
    \/ StructEnd

SpecEncode == InitContainers /\ [][NextEncode]_vars

(***************************************************************************)
(* Claims about unescape                                                   *)
(***************************************************************************)
\* the byte the next iteration of the loop reads
NextByte == source[pos + 1]
Reading == result = "scanning" /\ pos < Len(source)
InNormal == ~in_unicode /\ ~open
InEscaped == ~in_unicode /\ open
InUnicodeEscape == in_unicode

\* JSON's hex digits and their values, and the short escapes and their bytes
HexDigits == (48..57) \cup (65..70) \cup (97..102)
HexValue(x) == IF x <= 57 THEN x - 48 ELSE IF x <= 70 THEN x - 55 ELSE x - 87
ShortEscapes == {34, 92, 47, 98, 102, 110, 114, 116}
ShortEscapeByte(x) ==
    CASE x = 34 -> 34
      [] x = 92 -> 92
      [] x = 47 -> 47
      [] x = 98 -> 8
      [] x = 102 -> 12
      [] x = 110 -> 10
      [] x = 114 -> 13
      [] x = 116 -> 9
CodePointOf(d1, d2, d3, d4) ==
    4096 * HexValue(d1) + 256 * HexValue(d2) + 16 * HexValue(d3) + HexValue(d4)
IsSurrogate(cp) == cp >= 55296 /\ cp <= 57343
\* the code point the escape names once the next byte completes it
CompletedCodePoint ==
    CodePointOf(unicode_tmp[1], unicode_tmp[2], unicode_tmp[3], NextByte)
CompletesEscape ==
    /\ Reading
    /\ InUnicodeEscape
    /\ Len(unicode_tmp) = 3
    /\ unicode_tmp[1] \in HexDigits
    /\ unicode_tmp[2] \in HexDigits
    /\ unicode_tmp[3] \in HexDigits
    /\ NextByte \in HexDigits

\* C1: when the input ends while an escape is still open (the scan is over
\* in the Escaped state, or in the UnicodeEscape state with fewer than 4 hex
\* digits), unescape returns Err(InvalidEscape) and never Ok.
C1_OpenEscapeAtEndFails ==
    (result \notin {"idle", "scanning"} /\ pos = Len(source) /\ (open \/ in_unicode))
        => result = "InvalidEscape"

\* C3: reading a byte that is no escape character in the Escaped state, or
\* a byte that is no hex digit in the UnicodeEscape state, makes unescape
\* return Err(InvalidEscape) at once: nothing is appended and no later byte
\* is read.
C3_Malformed ==
    /\ Reading
    /\ \/ InEscaped /\ NextByte \notin (ShortEscapes \cup {117})
       \/ InUnicodeEscape /\ NextByte \notin HexDigits
C3_MalformedEscapeFails ==
    [][C3_Malformed => (result' = "InvalidEscape" /\ out' = out)]_vars
\* " \u000 ": three digits, then a space
C3_Witness ==
    /\ result = "InvalidEscape"
    /\ in_unicode
    /\ Len(unicode_tmp) = 3
    /\ source[pos] = 32

\* C4: a \uXXXX escape naming a surrogate code point fails with
\* InvalidEscape when its fourth digit is read, also when the next escape
\* would complete a surrogate pair: the pair is never combined.
C4_SurrogateFails ==
    [][(CompletesEscape /\ IsSurrogate(CompletedCodePoint))
        => (result' = "InvalidEscape" /\ out' = out)]_vars
\* 👏 fails at its sixth byte
C4_Witness ==
    /\ source = <<92, 117, 68, 56, 51, 68, 92, 117, 68, 67, 52, 70>>
    /\ pos = 6
    /\ result = "InvalidEscape"

\* C5: a \u escape collects exactly four hex digits, of either case; when
\* they name a code point that is no surrogate, the code point's UTF-8
\* encoding is appended and the scan is back in the Normal state, so that
\* the next byte, a hex digit too, is ordinary input.
C5_Step ==
    /\ (Reading /\ InUnicodeEscape /\ Len(unicode_tmp) < 3 /\ NextByte \in HexDigits)
        => /\ unicode_tmp' = Append(unicode_tmp, NextByte)
           /\ out' = out
           /\ in_unicode'
           /\ result' = "scanning"
    /\ (CompletesEscape /\ ~IsSurrogate(CompletedCodePoint))
        => /\ out' = out \o encode_utf8(CompletedCodePoint)
           /\ ~open'
           /\ ~in_unicode'
           /\ unicode_tmp' = <<>>
           /\ result' = "scanning"
    /\ (Reading /\ InNormal /\ NextByte \in HexDigits)
        => out' = Append(out, NextByte) /\ ~open' /\ ~in_unicode'
C5_UnicodeEscapeDecodes == [][C5_Step]_vars
\* ꯍ followed by e
C5_Witness ==
    /\ source = <<92, 117, 65, 98, 67, 100, 101>>
    /\ result = "Ok"
    /\ out = <<234, 175, 141, 101>>

\* C6: a byte read in the Normal state is copied unchanged, a backslash
\* opens an escape, each short escape appends its one byte and returns to
\* the Normal state; so 2k backslashes decode to k backslashes.
C6_Step ==
    /\ (Reading /\ InNormal /\ NextByte # 92)
        => out' = Append(out, NextByte) /\ ~open' /\ ~in_unicode' /\ result' = "scanning"
    /\ (Reading /\ InNormal /\ NextByte = 92)
        => out' = out /\ open' /\ ~in_unicode' /\ result' = "scanning"
    /\ (Reading /\ InEscaped /\ NextByte \in ShortEscapes)
        => /\ out' = Append(out, ShortEscapeByte(NextByte))
           /\ ~open'
           /\ ~in_unicode'
           /\ result' = "scanning"
NoBackslash(s) == 92 \notin Range(s)
OnlyBackslashes(s) == Range(s) \subseteq {92} /\ Len(s) % 2 = 0
C6_Returned == result \in {"Ok", "InvalidUnicodeCodePoint"}
C6_Backslashes ==
    (C6_Returned /\ OnlyBackslashes(source))
        => result = "Ok" /\ out = [k \in 1..(Len(source) \div 2) |-> 92]
\* C6 as stated: an input with no backslash decodes to itself.
C6_Original ==
    [][C6_Step
       /\ C6_Backslashes'
       /\ ((C6_Returned /\ NoBackslash(source)) => (result = "Ok" /\ out = source))']_vars
\* C6 as amended: an input with no backslash decodes to itself when it is
\* well-formed UTF-8 and is refused with InvalidUnicodeCodePoint when not.
C6_CopiesAndShortEscapes ==
    [][C6_Step
       /\ C6_Backslashes'
       /\ ((C6_Returned /\ NoBackslash(source))
            => /\ out = source
               /\ (result = "Ok" <=> from_utf8_ok(source)))']_vars
\* \\ \\ decodes to two backslashes
C6_Witness ==
    /\ source = <<92, 92, 92, 92>>
    /\ result = "Ok"
    /\ out = <<92, 92>>

\* C16: at the head of the loop, before a byte is read and when the input is
\* exhausted, in_unicode implies open, unicode_tmp holds at most three
\* bytes, hex digits all, and none unless in_unicode; so the four bytes
\* handed to hex_decode are hex digits and hex_decode_4bit does not panic.
C16_ScanState ==
    /\ result # "panic"
    /\ result = "scanning" =>
          /\ in_unicode => open
          /\ Len(unicode_tmp) <= 3
          /\ \A k \in 1..Len(unicode_tmp) : unicode_tmp[k] \in HexDigits
          /\ ~in_unicode => unicode_tmp = <<>>
    /\ (Reading /\ in_unicode /\ Len(unicode_tmp) = 3 /\ IsHexByte(NextByte)) =>
          /\ NextByte \in HexDigits
          /\ \A x \in Range(unicode_tmp) \cup {NextByte} : hex_decode_4bit(x) # Panic
\* \uABCD with its fourth digit still to read
C16_Witness ==
    /\ source = <<92, 117, 65, 66, 67, 68>>
    /\ pos = 5
    /\ result = "scanning"
    /\ in_unicode
    /\ unicode_tmp = <<65, 66, 67>>

\* C14 as stated: the final validation never fails
C14_Original ==
    /\ result # "InvalidUnicodeCodePoint"
    /\ result = "Ok" => from_utf8_ok(out)
\* C14 as amended: every Ok result is well-formed UTF-8, and the escapes
\* append well-formed UTF-8 only: as long as the input read so far is
\* well-formed, so is the output.  The bytes read in the Normal state are
\* copied as they are, though: the final validation fails, and unescape
\* returns InvalidUnicodeCodePoint, exactly when the input is not well-formed
\* UTF-8 and the scan met no malformed escape.
C14_ValidOrRefused ==
    /\ result = "Ok" => (from_utf8_ok(out) /\ from_utf8_ok(source))
    /\ (result = "scanning" /\ from_utf8_ok(SubSeq(source, 1, pos))) => from_utf8_ok(out)
    /\ result = "InvalidUnicodeCodePoint" =>
          /\ pos = Len(source)
          /\ ~from_utf8_ok(out)
          /\ ~from_utf8_ok(source)
\* a line feed escape and the byte 0xFF
C14_Witness ==
    /\ source = <<92, 110, 255>>
    /\ out = <<10, 255>>
    /\ result = "InvalidUnicodeCodePoint"

(***************************************************************************)
(* Claims about serialize_str                                              *)
(***************************************************************************)
HexUpper(n) == IF n < 10 THEN 48 + n ELSE 55 + n
\* what JSON's canonical form writes for one char
C8_Expected(c) ==
    CASE c = 92 -> <<92, 92>>
      [] c = 34 -> <<92, 34>>
      [] c = 8 -> <<92, 98>>
      [] c = 9 -> <<92, 116>>
      [] c = 10 -> <<92, 110>>
      [] c = 12 -> <<92, 102>>
      [] c = 13 -> <<92, 114>>
      [] c \in ((0..31) \ {8, 9, 10, 12, 13}) ->
            <<92, 117, 48, 48, HexUpper(c \div 16), HexUpper(c % 16)>>
      [] OTHER -> encode_utf8(c)

\* C2: unescape applied to the bytes serialize_str wrote between its quotes
\* returns Ok of the string that was serialized.
C2_RoundTrip ==
    (result \notin {"idle", "scanning"}) => (result = "Ok" /\ out = as_bytes(str_v))
\* a backslash and U+0000 come back
C2_Witness ==
    /\ str_v = <<92, 0>>
    /\ source = <<92, 92, 92, 117, 48, 48, 48, 48>>
    /\ result = "Ok"
    /\ out = <<92, 0>>

\* C8: serialize_str appends a quote, for each char in order its escape
\* (\\ \" \b \t \n \f \r, \u00XX in upper case for the other chars below
\* U+0020) or else its unmodified UTF-8 bytes, and a quote.
C8_EscapesExactly ==
    (buf # <<>>) =>
        buf = <<34>> \o Concat([k \in 1..Len(str_v) |-> C8_Expected(str_v[k])]) \o <<34>>
\* U+001F and a four-byte char
C8_Witness ==
    /\ str_v = <<31, 128163>>
    /\ buf = <<34, 92, 117, 48, 48, 49, 70, 240, 159, 146, 163, 34>>

(***************************************************************************)
(* Claims about the integers                                               *)
(***************************************************************************)
\* x * 10 + d on bytes, least significant last: <<carry out, bytes>>
RECURSIVE MulAdd10(_, _)
MulAdd10(x, d) ==
    IF x = <<>> THEN <<d, <<>>>>
    ELSE LET low == MulAdd10(SubSeq(x, 2, Len(x)), d)
             cur == x[1] * 10 + low[1]
         IN  <<cur \div 256, <<cur % 256>> \o low[2]>>
\* the number a sequence of ASCII digits denotes, in n bytes: Overflow
\* when it does not fit
RECURSIVE ParseDecimal(_, _)
ParseDecimal(digits, n) ==
    IF digits = <<>> THEN [k \in 1..n |-> 0]
    ELSE LET front == ParseDecimal(SubSeq(digits, 1, Len(digits) - 1), n) IN
         IF front = Overflow THEN Overflow
         ELSE LET r == MulAdd10(front, digits[Len(digits)] - 48) IN
              IF r[1] # 0 THEN Overflow ELSE r[2]
\* the two's complement bits of -m, for 0 < m <= 2^(w-1)
RECURSIVE Decrement(_)
Decrement(x) ==
    IF x[Len(x)] > 0 THEN [x EXCEPT ![Len(x)] = x[Len(x)] - 1]
    ELSE Append(Decrement(SubSeq(x, 1, Len(x) - 1)), 255)
MinusBits(m) == [k \in 1..Len(m) |-> 255 - Decrement(m)[k]]

C7_Negative == int_ty \in SignedTypes /\ int_in[1] >= 128
C7_Digits == IF buf # <<>> /\ buf[1] = 45 THEN Tail(buf) ELSE buf
\* C7: the bytes serialize_iN / serialize_uN append are the decimal
\* representation of the value: digits only, no leading zero but for 0
\* itself, a '-' in front exactly when the value is negative, and parsing
\* them gives the value back; no value makes the call panic.
C7_DecimalText ==
    /\ int_pc # "panic"
    /\ (int_pc = "done") =>
        /\ C7_Digits # <<>>
        /\ \A k \in 1..Len(C7_Digits) : C7_Digits[k] \in 48..57
        /\ (Len(C7_Digits) > 1 => C7_Digits[1] # 48)
        /\ (buf[1] = 45) <=> C7_Negative
        /\ LET m == ParseDecimal(C7_Digits, SizeOf(int_ty)) IN
           /\ m # Overflow
           /\ IF C7_Negative THEN ~IsZero(m) /\ MinusBits(m) = int_in ELSE m = int_in
\* i64::MIN is written as -9223372036854775808
C7_Witness ==
    /\ int_pc = "done"
    /\ int_ty = "i64"
    /\ int_in = <<128, 0, 0, 0, 0, 0, 0, 0>>
    /\ buf = <<45, 57, 50, 50, 51, 51, 55, 50, 48, 51, 54, 56, 53, 52, 55, 55, 53, 56, 48, 56>>

IsDigit(byte) == byte >= 48 /\ byte <= 57
\* the slots of the buffer from index i on hold digits
DigitsFrom(i) == \A k \in (i + 1)..Len(num_buf) : IsDigit(num_buf[k])
C15_State ==
    /\ int_pc # "panic"
    /\ int_pc \in {"loop", "emit", "done"} =>
          /\ Len(num_buf) = BufLen(int_ty)
          /\ num_i >= 0
          /\ num_i <= BufLen(int_ty) - 1
    \* the slot the next digit goes to, and the sign's, is still unwritten
    /\ int_pc = "loop" => (num_buf[num_i + 1] = 0 /\ DigitsFrom(num_i + 1))
    /\ (int_pc = "emit" /\ int_ty \in UnsignedTypes) => DigitsFrom(num_i)
    /\ (int_pc = "emit" /\ int_ty \in SignedTypes) =>
          (num_buf[num_i + 1] = 0 /\ DigitsFrom(num_i + 1))
    /\ (int_pc = "done" /\ num_signed) => (num_buf[num_i + 1] = 45 /\ DigitsFrom(num_i + 1))
    /\ (int_pc = "done" /\ ~num_signed) => DigitsFrom(num_i)
C15_Step ==
    /\ (int_pc = "loop" /\ int_pc' # "panic") =>
          /\ \A k \in 1..Len(num_buf) : k # num_i + 1 => num_buf'[k] = num_buf[k]
          /\ num_i' \in {num_i, num_i - 1}
    /\ int_pc = "emit" =>
          /\ int_pc' = "done"
          /\ \A k \in 1..Len(num_buf) : IsDigit(num_buf[k]) => num_buf'[k] = num_buf[k]
\* C15: the index i of serialize_unsigned! and serialize_signed! stays in
\* 0..N-1 for every value of every width: it is not decremented at 0, every
\* digit and the sign go to a slot that was not written before, and the
\* magnitude of a negative value is computed without overflow, so that no
\* call panics.
C15_IndexInBounds == []C15_State /\ [][C15_Step]_vars
\* i64::min_value(): nineteen digits and the sign, at index 0
C15_Witness ==
    /\ int_pc = "done"
    /\ int_ty = "i64"
    /\ int_in = min_value(8)
    /\ num_signed
    /\ num_i = 0

(***************************************************************************)
(* Claims about the containers                                             *)
(***************************************************************************)
Openers == {91, 123}
Closers == {93, 125}
\* the braces and brackets a container of the kind has open in the buffer
OpenersOf(kind) == IF kind = "variant" THEN 2 ELSE 1
\* the openers in the buffer that are open at and above stack[j + 1]
RECURSIVE OpenAbove(_)
OpenAbove(j) ==
    IF j >= Len(stack) THEN 0 ELSE OpenersOf(stack[j + 1].kind) + OpenAbove(j + 1)
\* Reading b[1..idx] backwards, with `closed` closers met that still wait
\* for their opener and `level` unmatched openers passed: the separators
\* that stand directly inside the unmatched opener number target + 1.
RECURSIVE SeparatorsInside(_, _, _, _, _)
SeparatorsInside(b, idx, closed, level, target) ==
    IF idx = 0 THEN 0
    ELSE IF b[idx] \in Closers THEN SeparatorsInside(b, idx - 1, closed + 1, level, target)
    ELSE IF b[idx] \in Openers THEN
        IF closed > 0 THEN SeparatorsInside(b, idx - 1, closed - 1, level, target)
        ELSE IF level = target THEN 0
        ELSE SeparatorsInside(b, idx - 1, 0, level + 1, target)
    ELSE (IF b[idx] = 44 /\ closed = 0 /\ level = target THEN 1 ELSE 0)
         + SeparatorsInside(b, idx - 1, closed, level, target)
\* the separators of the open container stack[j] that the buffer holds
SeparatorsOf(j) == SeparatorsInside(buf, Len(buf), 0, 0, OpenAbove(j))
\* no separator follows an opener, a separator or nothing, and none
\* precedes a closer
NoStraySeparator(b) ==
    /\ b # <<>> => b[1] # 44
    /\ \A k \in 1..(Len(b) - 1) :
        /\ b[k] \in (Openers \cup {44}) => b[k + 1] # 44
        /\ b[k] = 44 => b[k + 1] \notin Closers
C9_State ==
    /\ NoStraySeparator(buf)
    /\ \A j \in 1..Len(stack) :
        SeparatorsOf(j) = IF stack[j].n = 0 THEN 0 ELSE stack[j].n - 1
\* C9: an open container of n elements has written n - 1 separators of its
\* own (none for n = 0), one before every element but the first, nested
\* containers notwithstanding; no separator leads or trails; and a call on
\* an inner container leaves the flag first of every enclosing one alone.
C9_Separators ==
    /\ []C9_State
    /\ [][\A j \in 1..(Len(stack) - 1) :
            j <= Len(stack') => stack'[j].first = stack[j].first]_vars
\* [{"a":true,"b":true},[]]
C9_Witness ==
    /\ ser_pc = "done"
    /\ buf = <<91, 123, 34, 97, 34, 58, 116, 114, 117, 101, 44,
               34, 98, 34, 58, 116, 114, 117, 101, 125, 44, 91, 93, 93>>

\* the openers of the buffer that no closer matches, or -1 when a closer
\* matches no opener
RECURSIVE Unmatched(_, _)
Unmatched(b, depth) ==
    IF b = <<>> THEN depth
    ELSE IF Head(b) \in Openers THEN Unmatched(Tail(b), depth + 1)
    ELSE IF Head(b) \in Closers THEN
        IF depth = 0 THEN -1 ELSE Unmatched(Tail(b), depth - 1)
    ELSE Unmatched(Tail(b), depth)
IsPrefix(p, s) == Len(p) <= Len(s) /\ SubSeq(s, 1, Len(p)) = p
IsSuffix(p, s) == Len(p) <= Len(s) /\ SubSeq(s, Len(s) - Len(p) + 1, Len(s)) = p
\* C10: a struct variant is written as {"<variant>":{<fields>}}: the two
\* braces of its opening are matched by two on its end, so that the braces
\* of the buffer are balanced whenever the value is complete, and open as
\* many as the open containers account for before.
C10_StructVariantBalanced ==
    /\ ser_pc \in {"open", "done"} => Unmatched(buf, 0) = OpenAbove(0)
    /\ (ser_pc = "done" /\ root = "variant") =>
        /\ IsPrefix(<<123, 34>> \o VariantName \o <<34, 58, 123>>, buf)
        /\ IsSuffix(<<125, 125>>, buf)
        /\ Unmatched(SubSeq(buf, 1, Len(buf) - 1), 0) = 1
\* {"V":{"a":true,"b":null}}
C10_Witness ==
    /\ ser_pc = "done"
    /\ root = "variant"
    /\ buf = <<123, 34, 86, 34, 58, 123, 34, 97, 34, 58, 116, 114, 117, 101, 44,
               34, 98, 34, 58, 110, 117, 108, 108, 125, 125>>

(***************************************************************************)
(* Claims about optionals, variants and unsupported shapes                 *)
(***************************************************************************)
\* the bytes written since the last value.serialize was called
Written == SubSeq(buf, visiting.at + 1, Len(buf))
\* the call has not panicked, and the buffer still ends inside the value
\* visited last or right after it
VisitedLast ==
    /\ visiting.shape # "none"
    /\ ser_pc \in {"open", "done"}
    /\ Len(stack) >= visiting.depth
\* the value visited last is complete
VisitedComplete == VisitedLast /\ Len(stack) = visiting.depth
\* what a value without wrappers is to write at once: a scalar's text, a
\* container's opening delimiter
Literal(shape) ==
    CASE shape = "true" -> <<116, 114, 117, 101>>
      [] shape = "null" -> <<110, 117, 108, 108>>
      [] shape = "str" -> <<34, 97, 34>>
      [] shape = "unit_variant" -> <<34>> \o UnitName \o <<34>>
      [] shape = "seq" -> <<91>>
      [] shape \in {"struct", "map"} -> <<123>>
      [] shape = "variant" -> <<123, 34>> \o VariantName \o <<34, 58, 123>>
\* what a value under wrappers is to write at once: an optional nothing of
\* its own, a newtype variant {"N": before its payload and } after it once
\* the payload is complete
RECURSIVE Expected(_, _)
Expected(wraps, shape) ==
    IF wraps = <<>> THEN Literal(shape)
    ELSE IF Head(wraps) = "some" THEN Expected(Tail(wraps), shape)
    ELSE <<123, 34>> \o NewtypeName \o <<34, 58>> \o Expected(Tail(wraps), shape)
         \o (IF shape \in ContainerKinds THEN <<>> ELSE <<125>>)
\* the closing delimiters of a container's end()
CloserOf(kind) ==
    CASE kind = "seq" -> <<93>>
      [] kind \in {"struct", "map"} -> <<125>>
      [] kind = "variant" -> <<125, 125>>
IsNewtype(wraps) == wraps # <<>> /\ Head(wraps) = "newtype_variant"
C11_Opened ==
    (/\ VisitedLast
     /\ visiting.shape \notin Unsupported
     /\ IsNewtype(visiting.wraps) \/ visiting.shape = "unit_variant") =>
        /\ IsPrefix(Expected(visiting.wraps, visiting.shape), Written)
        /\ (VisitedComplete /\ visiting.shape \notin ContainerKinds) =>
              Written = Expected(visiting.wraps, visiting.shape)
        /\ visiting.shape \in ContainerKinds =>
              \A j \in 1..Cost(visiting.wraps) :
                  visiting.depth + j <= Len(stack) =>
                      stack[visiting.depth + j].kind = "newtype"
C11_Closed ==
    (ser_pc = "open" /\ ser_pc' # "panic" /\ Len(stack') < Len(stack)) =>
        /\ stack' = SubSeq(stack, 1, Len(stack'))
        /\ \A j \in (Len(stack') + 1)..(Len(stack) - 1) : stack[j].kind = "newtype"
        /\ stack' # <<>> => stack'[Len(stack')].kind # "newtype"
        /\ buf' = buf \o CloserOf(Top.kind)
                      \o [j \in 1..(Len(stack) - Len(stack') - 1) |-> 125]
\* C11: a newtype variant N of a payload writes {, "N", :, the payload and },
\* in this order and nothing else: the brace follows a scalar payload (an
\* absent optional included) at once, and the end() of a payload that is a
\* sequence or a record, once for every newtype variant that waits for it;
\* a unit variant U writes "U" and nothing else.
C11_Variants == []C11_Opened /\ [][C11_Closed]_vars
\* {"N":{"a":null}}
C11_Witness ==
    /\ ser_pc = "done"
    /\ buf = <<123, 34, 78, 34, 58, 123, 34, 97, 34, 58, 110, 117, 108, 108, 125, 125>>

OnlySome(wraps) == \A i \in 1..Len(wraps) : wraps[i] = "some"
\* the record serializer that was handed the value visited last
FieldOwner == stack[visiting.depth]
C12_Absent ==
    (VisitedLast /\ OnlySome(visiting.wraps) /\ visiting.shape = "null") =>
        /\ IsPrefix(<<110, 117, 108, 108>>, Written)
        /\ VisitedComplete => Len(buf) = visiting.at + 4
        /\ (visiting.depth > 0 /\ FieldOwner.kind \in {"struct", "variant"}) =>
              /\ FieldOwner.n >= 1
              /\ visiting.at >= 4
              /\ SubSeq(buf, visiting.at - 3, visiting.at)
                    = <<34>> \o KeyOf(FieldOwner.n) \o <<34, 58>>
C12_Present ==
    (VisitedLast /\ OnlySome(visiting.wraps) /\ visiting.shape \notin Unsupported) =>
        /\ IsPrefix(Literal(visiting.shape), Written)
        /\ (VisitedComplete /\ visiting.shape \notin ContainerKinds) =>
              Written = Literal(visiting.shape)
        /\ (visiting.shape \in ContainerKinds /\ Len(stack) > visiting.depth) =>
              stack[visiting.depth + 1].kind = visiting.shape
\* C12: an absent optional writes the four bytes null, a present one writes
\* what the value it holds writes, no wrapper about it in the buffer or among
\* the open serializers; a record's field that holds an absent optional is
\* written as its name, a colon and null.
C12_Optionals == C12_Absent /\ C12_Present
\* {"a":null,"b":"a"}, b being a present optional
C12_Witness ==
    /\ ser_pc = "done"
    /\ visiting.wraps = <<"some">>
    /\ buf = <<123, 34, 97, 34, 58, 110, 117, 108, 108, 44,
               34, 98, 34, 58, 34, 97, 34, 125>>

\* C13: a value of an unsupported shape (f32, f64, char, bytes, unit, unit
\* struct, tuple struct, tuple variant, a map handed to serialize_map) makes
\* the call panic where it is visited, at any depth and under any wrapper:
\* the call never gets to hand back a buffer after it.
C13_UnsupportedAborts ==
    /\ [](visiting.shape \in Unsupported => ser_pc = "panic")
    /\ [](ser_pc = "panic" => visiting.shape \in Unsupported)
    /\ [][ser_pc = "panic" => ser_pc' = "panic"]_vars
\* an f64 as the payload of a newtype variant, in a sequence in a record
C13_Witness ==
    /\ ser_pc = "panic"
    /\ visiting.shape = "f64"
    /\ visiting.wraps = <<"newtype_variant">>
    /\ visiting.depth = 2

=============================================================================
